---- MODULE Spec2Model ----
(***************************************************************************)
(* Model of app.py, a Streamlit page that predicts diabetes risk.          *)
(*                                                                         *)
(* Streamlit runs the whole script top to bottom once per user             *)
(* interaction (a "page run").  st.session_state and the widget values     *)
(* survive between runs; everything else is recomputed.  One action of     *)
(* the model is one page run together with the interaction that caused     *)
(* it.  Clear History takes two page runs: the run of the click empties    *)
(* the history and stops at st.rerun(), and the run that follows renders   *)
(* the page.                                                               *)
(*                                                                         *)
(* Units: the BMI slider has step 0.1 and is modelled in tenths            *)
(* (10.0 -> 100), the pedigree slider has step 0.01 and is modelled in     *)
(* hundredths (0.08 -> 8); probabilities are modelled in percent           *)
(* (0.8 -> 80).  A timestamp is the number of seconds the formatted        *)
(* "%Y-%m-%d %H:%M:%S" string denotes.                                     *)
(***************************************************************************)
EXTENDS Integers, Sequences, FiniteSets

VARIABLES
    sliders,             \* widget state of the eight sliders (keyed, kept by the session)
    prediction_history,  \* st.session_state.prediction_history
    current_prediction,  \* st.session_state.current_prediction
    model_file,          \* best_diabetes_model.pkl on disk: "ok", "missing", "corrupt"
    scaler_file,         \* scaler.pkl on disk: "ok", "missing", "corrupt"
    clock,               \* the latest reading of datetime.now(), in seconds
    button,              \* what triggered the last page run: "none", "predict", "clear"
    input_df,            \* the record the last page run worked on
    clear_offered,       \* the last page run rendered the Clear History button
    glucose_metric,      \* (category, color, risk) shown by the last page run, or NotRendered
    sidebar,             \* sidebar glucose status and warning of the last page run
    messages,            \* st.error / st.info / st.warning / st.success boxes of the main
                         \* area in the last page run, and the exception that ended it
    calls,               \* functions and artifact methods the last page run invoked
    returned,            \* what make_prediction returned in the last page run
    shown,               \* the history log rendered by the last page run
    predictions,         \* successful predictions since the last clear (or session start)
    load_failed,         \* some submit of this session failed to load the artifacts
    scaler_arg,          \* the vector the last page run handed to scaler.transform
    chart                \* what became of the feature-importance chart in the last page run

vars == <<sliders, prediction_history, current_prediction, model_file, scaler_file,
          clock, button, input_df, clear_offered, glucose_metric, sidebar, messages,
          calls, returned, shown, predictions, load_failed, scaler_arg,
          chart>>

(***************************************************************************)
(* Bounds of the model.                                                    *)
(***************************************************************************)
MaxHist == 6
MaxHistInput == 1
MaxHistDirect == 1
MaxHistArtifacts == 2
MaxHistChart == 3
MaxClock == 1
MaxOffDefault == 1

None == [none |-> TRUE]

\* The glucose metric of a page run that stopped before line 409.
NotRendered == <<"not rendered", "not rendered", "not rendered">>

(***************************************************************************)
(* The eight sliders of get_user_input: (min, max, default).               *)
(***************************************************************************)
FieldOrder ==
    <<"Pregnancies", "Glucose", "BloodPressure", "SkinThickness",
      "Insulin", "BMI", "DiabetesPedigreeFunction", "Age">>

Fields == {FieldOrder[i] : i \in 1..Len(FieldOrder)}

Slider(f) ==
    CASE f = "Pregnancies"              -> [min |-> 0,   max |-> 20,   value |-> 1]
      [] f = "Glucose"                  -> [min |-> 50,  max |-> 400,  value |-> 120]
      [] f = "BloodPressure"            -> [min |-> 40,  max |-> 180,  value |-> 70]
      [] f = "SkinThickness"            -> [min |-> 0,   max |-> 99,   value |-> 20]
      [] f = "Insulin"                  -> [min |-> 0,   max |-> 1000, value |-> 80]
      [] f = "BMI"                      -> [min |-> 100, max |-> 600,  value |-> 250]
      [] f = "DiabetesPedigreeFunction" -> [min |-> 8,   max |-> 250,  value |-> 50]
      [] f = "Age"                      -> [min |-> 0,   max |-> 100,  value |-> 30]

\* Variant: the upper end of the range is not enforced.
SliderAccepts_unbounded(f, v) == Slider(f).min <= v

\* st.slider only ever holds a value between its min_value and max_value.
SliderAccepts(f, v) == Slider(f).min <= v /\ v <= Slider(f).max

SliderDefaults == [f \in Fields |-> Slider(f).value]


(***************************************************************************)
(* Slider values tried by the user; values outside a slider's range are    *)
(* tried too and refused by the widget.                                    *)
(***************************************************************************)
EdgeStops(f) == {Slider(f).min - 1, Slider(f).min, Slider(f).max, Slider(f).max + 1}

GlucoseStops == {Slider("Glucose").min - 1, 200, Slider("Glucose").max + 1}

(***************************************************************************)
(* The opaque artifacts: a scaler and a classifier, each of which may      *)
(* reject the vector it is handed.  Stubs are the behaviours tried.        *)
(***************************************************************************)
Stubs ==
    { [scaler |-> [rejects |-> FALSE],
       model  |-> [rejects |-> FALSE, label |-> 0, proba |-> <<80, 20>>,
                  importances |-> "absent"]],
      [scaler |-> [rejects |-> FALSE],
       model  |-> [rejects |-> FALSE, label |-> 1, proba |-> <<30, 70>>,
                  importances |-> "absent"]],
      [scaler |-> [rejects |-> TRUE],
       model  |-> [rejects |-> FALSE, label |-> 0, proba |-> <<80, 20>>,
                  importances |-> "absent"]],
      [scaler |-> [rejects |-> FALSE],
       model  |-> [rejects |-> TRUE, label |-> 1, proba |-> <<30, 70>>,
                  importances |-> "absent"]] }

\* Variant: only the model file is opened.
load_models_model_only(stub) ==
    CASE model_file = "missing" ->
           [model |-> None, scaler |-> None,
            messages |-> {"error: File tidak ditemukan", "info: Pastikan file ada"}]
      [] model_file = "corrupt" ->
           [model |-> None, scaler |-> None,
            messages |-> {"error: Error loading model"}]
      [] OTHER ->
           [model |-> stub.model, scaler |-> stub.scaler, messages |-> {}]

(***************************************************************************)
(* load_models: both files are opened and unpickled, the model first.      *)
(***************************************************************************)
load_models(stub) ==
    LET first_bad == IF model_file # "ok" THEN model_file
                     ELSE IF scaler_file # "ok" THEN scaler_file
                     ELSE "ok"
    IN  CASE first_bad = "missing" ->
               [model |-> None, scaler |-> None,
                messages |-> {"error: File tidak ditemukan", "info: Pastikan file ada"}]
          [] first_bad = "corrupt" ->
               [model |-> None, scaler |-> None,
                messages |-> {"error: Error loading model"}]
          [] OTHER ->
               [model |-> stub.model, scaler |-> stub.scaler, messages |-> {}]

\* Variant: the sidebar status follows the five bands of the analysis.
glucose_status_five_band(glucose) ==
    IF glucose < 100 THEN "Normal"
    ELSE IF glucose < 126 THEN "Prediabetes"
    ELSE IF glucose < 140 THEN "Diabetes"
    ELSE IF glucose < 200 THEN "Prediabetes"
    ELSE "Diabetes"

(***************************************************************************)
(* get_user_input: the record of the eight slider values, and the live     *)
(* sidebar feedback on the glucose value.                                  *)
(***************************************************************************)
glucose_status(glucose) ==
    IF glucose < 140 THEN "Normal"
    ELSE IF glucose < 200 THEN "Prediabetes"
    ELSE "Diabetes"

glucose_warning(glucose) == glucose >= 200

get_user_input(widgets) == [f \in Fields |-> widgets[f]]

sidebar_of(widgets) ==
    [status  |-> glucose_status(widgets["Glucose"]),
     warning |-> glucose_warning(widgets["Glucose"])]

\* Variant: the data dictionary lists BMI before Insulin.
FrameColumns_swapped ==
    <<"Pregnancies", "Glucose", "BloodPressure", "SkinThickness",
      "BMI", "Insulin", "DiabetesPedigreeFunction", "Age">>

\* The columns of the DataFrame, in the order of the data dictionary.
FrameColumns == FieldOrder

\* scaler.transform(input_df) reads the row of the frame column by column.
columns_of(df) == SelectSeq(FrameColumns, LAMBDA f : f \in DOMAIN df)

to_vector(df) == [i \in 1..Len(columns_of(df)) |-> df[columns_of(df)[i]]]

\* Variant: the except branch falls back to a default result.
make_prediction_defaulting(model, scaler, df) ==
    IF scaler.rejects
    THEN [ret |-> [prediction |-> 0, probabilities |-> <<100, 0>>],
          calls |-> {"scaler.transform"}, vector |-> to_vector(df),
          messages |-> {"error: Error membuat prediksi"}]
    ELSE IF model.rejects
    THEN [ret |-> [prediction |-> 0, probabilities |-> <<100, 0>>],
          calls |-> {"scaler.transform", "model.predict"}, vector |-> to_vector(df),
          messages |-> {"error: Error membuat prediksi"}]
    ELSE [ret |-> [prediction |-> model.label, probabilities |-> model.proba],
          calls |-> {"scaler.transform", "model.predict", "model.predict_proba"},
          vector |-> to_vector(df),
          messages |-> {}]

(***************************************************************************)
(* make_prediction: scale, predict, predict_proba; any exception is        *)
(* reported with st.error and (None, None) is returned.                    *)
(***************************************************************************)
make_prediction(model, scaler, df) ==
    IF scaler.rejects
    THEN [ret |-> None, calls |-> {"scaler.transform"}, vector |-> to_vector(df),
          messages |-> {"error: Error membuat prediksi"}]
    ELSE IF model.rejects
    THEN [ret |-> None, calls |-> {"scaler.transform", "model.predict"},
          vector |-> to_vector(df),
          messages |-> {"error: Error membuat prediksi"}]
    ELSE [ret |-> [prediction |-> model.label, probabilities |-> model.proba],
          calls |-> {"scaler.transform", "model.predict", "model.predict_proba"},
          vector |-> to_vector(df),
          messages |-> {}]

\* Variant: the thresholds are compared with <= instead of <.
analyze_glucose_level_inclusive(glucose_value) ==
    IF glucose_value <= 100 THEN <<"Normal (Puasa)", "green", "Rendah">>
    ELSE IF glucose_value <= 126 THEN <<"Prediabetes (Puasa)", "orange", "Sedang">>
    ELSE IF glucose_value <= 140 THEN <<"Diabetes (Puasa)", "red", "Tinggi">>
    ELSE IF glucose_value <= 200 THEN <<"Prediabetes (2 jam)", "orange", "Sedang">>
    ELSE <<"Diabetes (2 jam)", "red", "Tinggi">>

(***************************************************************************)
(* analyze_glucose_level: (category, color, risk).                         *)
(***************************************************************************)
analyze_glucose_level(glucose_value) ==
    IF glucose_value < 100 THEN <<"Normal (Puasa)", "green", "Rendah">>
    ELSE IF glucose_value < 126 THEN <<"Prediabetes (Puasa)", "orange", "Sedang">>
    ELSE IF glucose_value < 140 THEN <<"Diabetes (Puasa)", "red", "Tinggi">>
    ELSE IF glucose_value < 200 THEN <<"Prediabetes (2 jam)", "orange", "Sedang">>
    ELSE <<"Diabetes (2 jam)", "red", "Tinggi">>

\* Variant: the first five entries are taken instead of the last five.
last_five_first(h) ==
    IF Len(h) <= 5 THEN h ELSE SubSeq(h, 1, 5)

\* Variant: the log is not reversed.
history_display_oldest_first(h) ==
    LET tail == IF Len(h) <= 5 THEN h ELSE SubSeq(h, Len(h) - 4, Len(h))
    IN  [i \in 1..Len(tail) |->
            [no     |-> i,
             pred   |-> tail[i],
             status |-> IF tail[i].prediction = 0
                        THEN "Non-Diabetes" ELSE "Diabetes"]]

(***************************************************************************)
(* The history log: reversed(prediction_history[-5:]) numbered from 1.     *)
(***************************************************************************)
last_five(h) ==
    IF Len(h) <= 5 THEN h ELSE SubSeq(h, Len(h) - 4, Len(h))

history_display(h) ==
    LET tail == last_five(h)
    IN  [i \in 1..Len(tail) |->
            [no     |-> i,
             pred   |-> tail[Len(tail) + 1 - i],
             status |-> IF tail[Len(tail) + 1 - i].prediction = 0
                        THEN "Non-Diabetes" ELSE "Diabetes"]]

\* Variant: the latest entry is overwritten instead of a new one being added.
history_append_replace(h, entry) ==
    IF h = <<>> THEN <<entry>> ELSE [h EXCEPT ![Len(h)] = entry]

\* Variant: the category slot receives the sidebar status.
new_entry_status(df, ret, now) ==
    [data             |-> df,
     prediction       |-> ret.prediction,
     probabilities    |-> ret.probabilities,
     timestamp        |-> now,
     glucose          |-> df["Glucose"],
     glucose_category |-> glucose_status(df["Glucose"])]

\* Variant: an entry equal to a stored one is not stored again.
history_append_dedup(h, entry) ==
    IF \E i \in 1..Len(h) : h[i] = entry THEN h ELSE Append(h, entry)

\* Variant: the category slot receives the risk tier of the analysis.
new_entry_risk(df, ret, now) ==
    [data             |-> df,
     prediction       |-> ret.prediction,
     probabilities    |-> ret.probabilities,
     timestamp        |-> now,
     glucose          |-> df["Glucose"],
     glucose_category |-> IF df["Glucose"] < 100 THEN "Rendah"
                          ELSE IF df["Glucose"] < 126 THEN "Sedang"
                          ELSE IF df["Glucose"] < 140 THEN "Tinggi"
                          ELSE IF df["Glucose"] < 200 THEN "Sedang"
                          ELSE "Tinggi"]

\* st.session_state.prediction_history.append(...)
history_append(h, entry) == Append(h, entry)

\* The dictionary stored in current_prediction and copied into the history.
new_entry(df, ret, now) ==
    [data             |-> df,
     prediction       |-> ret.prediction,
     probabilities    |-> ret.probabilities,
     timestamp        |-> now,
     glucose          |-> df["Glucose"],
     glucose_category |-> analyze_glucose_level(df["Glucose"])[1]]


(***************************************************************************)
(* The parts of a page run.                                                *)
(***************************************************************************)
\* Lines 366-408: the sidebar, the Clear History button (offered when the
\* history is non-empty at that point of the run) and the glucose metric.
PageTop(widgets, hist) ==
    /\ input_df' = get_user_input(widgets)
    /\ sidebar' = sidebar_of(widgets)
    /\ clear_offered' = (hist # <<>>)
    /\ glucose_metric' = analyze_glucose_level(get_user_input(widgets)["Glucose"])

\* Line 465: the glucose interpretation, shown by every page run that
\* reaches the main content area.
glucose_interpretation == {"info: Interpretasi Glukosa Anda"}

\* Lines 519-532, 592-612 and 732: the boxes shown with a prediction result.
result_messages(df, ret, chart_state) ==
    (IF ret.prediction = 0 THEN {}
     ELSE {"warning: Disarankan untuk konsultasi dengan dokter"})
    \cup (IF df["Glucose"] >= 200 THEN {"error: Nilai Diabetes"}
          ELSE IF df["Glucose"] >= 140 THEN {"warning: Nilai Prediabetes"}
          ELSE {"success: Nilai Normal"})
    \cup (IF df["Glucose"] >= 200 THEN {"error: PERHATIAN NILAI GLUKOSA TINGGI"}
          ELSE {})
    \cup (IF chart_state = "shown" THEN {"info: Interpretasi Feature Importance"}
          ELSE {})

\* Variant: the chart is drawn outside any try block.
feature_importance_unguarded(model) ==
    IF model.importances = "absent" THEN "absent"
    ELSE IF model.importances = "ok" THEN "shown"
    ELSE "raised"

\* Lines 695-739: the chart is drawn when the model has feature_importances_;
\* whatever is raised on the way is swallowed by the bare except.
feature_importance(model) ==
    IF model.importances = "absent" THEN "absent"
    ELSE IF model.importances = "ok" THEN "shown"
    ELSE "omitted"

\* Lines 484-739: the prediction section, run when the predict button was pressed.
PredictionSection(df, stub, now) ==
    LET loaded == load_models(stub)
        made   == make_prediction(loaded.model, loaded.scaler, df)
    IN  IF loaded.model # None /\ loaded.scaler # None
        THEN IF made.ret # None
             THEN /\ current_prediction' = new_entry(df, made.ret, now)
                  /\ prediction_history' =
                         history_append(prediction_history, new_entry(df, made.ret, now))
                  /\ predictions' = predictions + 1
                  /\ clock' = now
                  /\ messages' = glucose_interpretation
                         \cup result_messages(df, made.ret,
                                               feature_importance(loaded.model))
                  /\ calls' = {"load_models", "make_prediction"} \cup made.calls
                  /\ returned' = made.ret
                  /\ scaler_arg' = made.vector
                  /\ chart' = feature_importance(loaded.model)
                  /\ UNCHANGED load_failed
             ELSE /\ messages' = glucose_interpretation \cup made.messages
                  /\ calls' = {"load_models", "make_prediction"} \cup made.calls
                  /\ returned' = None
                  /\ scaler_arg' = made.vector
                  /\ chart' = "none"
                  /\ UNCHANGED <<current_prediction, prediction_history,
                                 predictions, clock, load_failed>>
        ELSE /\ messages' = glucose_interpretation \cup loaded.messages
             /\ calls' = {"load_models"}
             /\ returned' = None
             /\ scaler_arg' = <<>>
             /\ chart' = "none"
             /\ load_failed' = TRUE
             /\ UNCHANGED <<current_prediction, prediction_history, predictions, clock>>

\* Lines 744-749: the history log, rendered last.
HistoryLog(hist) == shown' = history_display(hist)

\* The history log of a run with a prediction section: an exception that
\* leaves the prediction section ends the run before the log.
HistoryLogAfterPrediction ==
    IF chart' = "raised" THEN shown' = <<>> ELSE HistoryLog(prediction_history')

NoPrediction ==
    /\ messages' = glucose_interpretation
    /\ calls' = {}
    /\ returned' = None
    /\ scaler_arg' = <<>>
    /\ chart' = "none"

Times == {t \in {clock, clock + 1} : t <= MaxClock}

(***************************************************************************)
(* The interactions.                                                       *)
(***************************************************************************)
\* The page is run again with no button pressed.
Rerun ==
    /\ button' = "none"
    /\ PageTop(sliders, prediction_history)
    /\ NoPrediction
    /\ HistoryLog(prediction_history)
    /\ UNCHANGED <<sliders, prediction_history, current_prediction, model_file,
                   scaler_file, clock, predictions, load_failed>>

\* The user moves slider f to v; the widget keeps v and the page is run again.
AdjustSlider(f, v) ==
    /\ SliderAccepts(f, v)
    /\ v # sliders[f]
    /\ sliders' = [sliders EXCEPT ![f] = v]
    /\ button' = "none"
    /\ PageTop(sliders', prediction_history)
    /\ NoPrediction
    /\ HistoryLog(prediction_history)
    /\ UNCHANGED <<prediction_history, current_prediction, model_file,
                   scaler_file, clock, predictions, load_failed>>

\* The user presses the predict button.
ClickPredict(cap, stubs) ==
    /\ Len(prediction_history) < cap
    /\ \E stub \in stubs, now \in Times :
          /\ button' = "predict"
          /\ PageTop(sliders, prediction_history)
          /\ PredictionSection(get_user_input(sliders), stub, now)
          /\ HistoryLogAfterPrediction
    /\ UNCHANGED <<sliders, model_file, scaler_file>>

\* Variant: only the five displayed entries are removed.
ClickClear_displayed_only ==
    /\ clear_offered
    /\ prediction_history # <<>>
    /\ prediction_history' =
           IF Len(prediction_history) <= 5 THEN <<>>
           ELSE SubSeq(prediction_history, 1, Len(prediction_history) - 5)
    /\ predictions' = Len(prediction_history')
    /\ button' = "clear"
    /\ input_df' = get_user_input(sliders)
    /\ sidebar' = sidebar_of(sliders)
    /\ clear_offered' = TRUE
    /\ glucose_metric' = NotRendered
    /\ messages' = {}
    /\ calls' = {}
    /\ returned' = None
    /\ scaler_arg' = <<>>
    /\ chart' = "none"
    /\ shown' = <<>>
    /\ UNCHANGED <<sliders, current_prediction, model_file, scaler_file,
                   clock, load_failed>>

\* The user presses Clear History, which the previous run rendered.  The run
\* of the click (lines 364-384) builds the sidebar, renders the button again
\* because the history is still non-empty at line 376, empties the history
\* and stops at st.rerun(): the main content area and the history log are
\* not rendered.  The page run that st.rerun() starts is the next step, a
\* Rerun or the run of whatever interaction arrived meanwhile.
ClickClear ==
    /\ clear_offered
    /\ prediction_history # <<>>
    /\ prediction_history' = <<>>
    /\ predictions' = 0
    /\ button' = "clear"
    /\ input_df' = get_user_input(sliders)
    /\ sidebar' = sidebar_of(sliders)
    /\ clear_offered' = TRUE
    /\ glucose_metric' = NotRendered
    /\ messages' = {}
    /\ calls' = {}
    /\ returned' = None
    /\ scaler_arg' = <<>>
    /\ chart' = "none"
    /\ shown' = <<>>
    /\ UNCHANGED <<sliders, current_prediction, model_file, scaler_file,
                   clock, load_failed>>

\* The artifact files are removed, damaged or restored on disk.
SetModelFile(status) ==
    /\ status # model_file
    /\ model_file' = status
    /\ UNCHANGED <<sliders, prediction_history, current_prediction, scaler_file, clock,
                   button, input_df, clear_offered, glucose_metric, sidebar, messages,
                   calls, returned, shown, predictions, load_failed, scaler_arg,
          chart>>

SetScalerFile(status) ==
    /\ status # scaler_file
    /\ scaler_file' = status
    /\ UNCHANGED <<sliders, prediction_history, current_prediction, model_file, clock,
                   button, input_df, clear_offered, glucose_metric, sidebar, messages,
                   calls, returned, shown, predictions, load_failed, scaler_arg,
          chart>>

FileStatus == {"ok", "missing", "corrupt"}

(***************************************************************************)
(* The session: the state after the first page run of a new session.       *)
(***************************************************************************)
Init ==
    /\ sliders = SliderDefaults
    /\ prediction_history = <<>>
    /\ current_prediction = None
    /\ model_file = "ok"
    /\ scaler_file = "ok"
    /\ clock = 0
    /\ button = "none"
    /\ input_df = get_user_input(SliderDefaults)
    /\ clear_offered = FALSE
    /\ glucose_metric = analyze_glucose_level(SliderDefaults["Glucose"])
    /\ sidebar = sidebar_of(SliderDefaults)
    /\ messages = glucose_interpretation
    /\ calls = {}
    /\ returned = None
    /\ shown = <<>>
    /\ predictions = 0
    /\ load_failed = FALSE
    /\ scaler_arg = <<>>
    /\ chart = "none"

AdjustGlucose == \E v \in GlucoseStops : AdjustSlider("Glucose", v)

Submit == ClickPredict(MaxHist, Stubs)

ChangeModelFile == \E status \in FileStatus : SetModelFile(status)

ChangeScalerFile == \E status \in FileStatus : SetScalerFile(status)

Next ==
    \/ Rerun
    \/ AdjustGlucose
    \/ Submit
    \/ ClickClear

Spec == Init /\ [][Next]_vars

(***************************************************************************)
(* The session while the artifact files come and go on disk.               *)
(***************************************************************************)
SubmitArtifacts == ClickPredict(MaxHistArtifacts, Stubs)

NextArtifacts ==
    \/ Rerun
    \/ AdjustGlucose
    \/ SubmitArtifacts
    \/ ClickClear
    \/ ChangeModelFile
    \/ ChangeScalerFile

SpecArtifacts == Init /\ [][NextArtifacts]_vars


(***************************************************************************)
(* The session with classifiers that do or do not expose                   *)
(* feature_importances_, and whose chart can or cannot be drawn.           *)
(***************************************************************************)
ChartStubs ==
    { [scaler |-> [rejects |-> FALSE],
       model  |-> [rejects |-> FALSE, label |-> 1, proba |-> <<30, 70>>,
                   importances |-> i]] : i \in {"absent", "ok", "bad"} }
    \cup { [scaler |-> [rejects |-> FALSE],
             model  |-> [rejects |-> TRUE, label |-> 1, proba |-> <<30, 70>>,
                         importances |-> "bad"]] }

SubmitChart == ClickPredict(MaxHistChart, ChartStubs)

NextChart ==
    \/ Rerun
    \/ AdjustGlucose
    \/ SubmitChart
    \/ ClickClear

SpecChart == Init /\ [][NextChart]_vars

(***************************************************************************)
(* The session while the user moves any of the eight sliders to the ends   *)
(* of its range.  At most MaxOffDefault sliders are moved in a session.    *)
(***************************************************************************)
OffDefault(widgets) == {f \in Fields : widgets[f] # SliderDefaults[f]}

AdjustAny ==
    \E f \in Fields : \E v \in EdgeStops(f) :
        /\ AdjustSlider(f, v)
        /\ Cardinality(OffDefault(sliders')) <= MaxOffDefault

SubmitInput == ClickPredict(MaxHistInput, Stubs)

NextInput ==
    \/ Rerun
    \/ AdjustAny
    \/ SubmitInput
    \/ ClickClear

SpecInput == Init /\ [][NextInput]_vars

(***************************************************************************)
(* The glucose analysis over the whole range of the glucose slider: the    *)
(* user has moved the slider to any value and the page is about to be run  *)
(* again.                                                                  *)
(***************************************************************************)
GlucoseRange == Slider("Glucose").min .. Slider("Glucose").max

InitGlucose ==
    /\ sliders \in {[SliderDefaults EXCEPT !["Glucose"] = g] : g \in GlucoseRange}
    /\ prediction_history = <<>>
    /\ current_prediction = None
    /\ model_file = "ok"
    /\ scaler_file = "ok"
    /\ clock = 0
    /\ button = "none"
    /\ input_df = get_user_input(SliderDefaults)
    /\ clear_offered = FALSE
    /\ glucose_metric = analyze_glucose_level(SliderDefaults["Glucose"])
    /\ sidebar = sidebar_of(SliderDefaults)
    /\ messages = glucose_interpretation
    /\ calls = {}
    /\ returned = None
    /\ shown = <<>>
    /\ predictions = 0
    /\ load_failed = FALSE
    /\ scaler_arg = <<>>
    /\ chart = "none"

NextGlucose == Rerun

SpecGlucose == InitGlucose /\ [][NextGlucose]_vars

(***************************************************************************)
(* The main content area and the prediction section (lines 404-507 and     *)
(* 744-749) run on a record that get_user_input did not build: a field is  *)
(* out of the range of its slider, or is absent.                           *)
(***************************************************************************)
ExternalRecords ==
    {SliderDefaults}
    \cup UNION {{[SliderDefaults EXCEPT ![f] = v] :
                    v \in {Slider(f).min - 1, Slider(f).max + 1}} : f \in Fields}
    \cup {[g \in Fields \ {f} |-> SliderDefaults[g]] : f \in Fields}

InitDirect ==
    /\ sliders = SliderDefaults
    /\ prediction_history = <<>>
    /\ current_prediction = None
    /\ model_file = "ok"
    /\ scaler_file = "ok"
    /\ clock = 0
    /\ button = "none"
    /\ input_df \in ExternalRecords
    /\ clear_offered = FALSE
    /\ glucose_metric = analyze_glucose_level(SliderDefaults["Glucose"])
    /\ sidebar = sidebar_of(SliderDefaults)
    /\ messages = glucose_interpretation
    /\ calls = {}
    /\ returned = None
    /\ shown = <<>>
    /\ predictions = 0
    /\ load_failed = FALSE
    /\ scaler_arg = <<>>
    /\ chart = "none"

SubmitDirect ==
    /\ Len(prediction_history) < MaxHistDirect
    /\ button' = "predict"
    /\ clear_offered' = (prediction_history # <<>>)
    /\ IF "Glucose" \in DOMAIN input_df
       THEN /\ glucose_metric' = analyze_glucose_level(input_df["Glucose"])
            /\ \E stub \in Stubs, now \in Times :
                  PredictionSection(input_df, stub, now)
            /\ HistoryLogAfterPrediction
       ELSE \* input_df['Glucose'] raises KeyError and the run stops there
            /\ messages' = {"exception: KeyError Glucose"}
            /\ calls' = {}
            /\ returned' = None
            /\ scaler_arg' = <<>>
            /\ chart' = "none"
            /\ shown' = <<>>
            /\ glucose_metric' = NotRendered
            /\ UNCHANGED <<current_prediction, prediction_history,
                           predictions, clock, load_failed>>
    /\ UNCHANGED <<sliders, input_df, sidebar, model_file, scaler_file>>

NextDirect == SubmitDirect

SpecDirect == InitDirect /\ [][NextDirect]_vars


(***************************************************************************)
(*                              PROPERTIES                                 *)
(***************************************************************************)
Min(a, b) == IF a <= b THEN a ELSE b

LastEntry == prediction_history[Len(prediction_history)]

\* The last page run was a submit.
Submitted == button = "predict"

\* The last page run was a submit in which make_prediction returned a result.
Succeeded == button = "predict" /\ returned # None

\* The declared ranges and defaults of the input record (BMI in tenths,
\* pedigree in hundredths).
DeclaredRange ==
    [Pregnancies |-> 0..20, Glucose |-> 50..400, BloodPressure |-> 40..180,
     SkinThickness |-> 0..99, Insulin |-> 0..1000, BMI |-> 100..600,
     DiabetesPedigreeFunction |-> 8..250, Age |-> 0..100]

DeclaredDefaults ==
    [Pregnancies |-> 1, Glucose |-> 120, BloodPressure |-> 70,
     SkinThickness |-> 20, Insulin |-> 80, BMI |-> 250,
     DiabetesPedigreeFunction |-> 50, Age |-> 30]

InDeclaredRange(rec) ==
    /\ DOMAIN rec = DOMAIN DeclaredRange
    /\ \A f \in DOMAIN rec : rec[f] \in DeclaredRange[f]

\* C1: for every glucose value of the slider range the page run shows the
\* five-band category and risk of the half-open thresholds 100, 126, 140, 200,
\* each threshold value falling in the upper band.
C1_FiveBands ==
    LET g == input_df["Glucose"]
        category == glucose_metric[1]
        risk == glucose_metric[3]
    IN  /\ g \in 50..400
        /\ (g < 100) => (category = "Normal (Puasa)" /\ risk = "Rendah")
        /\ (100 <= g /\ g < 126) => (category = "Prediabetes (Puasa)" /\ risk = "Sedang")
        /\ (126 <= g /\ g < 140) => (category = "Diabetes (Puasa)" /\ risk = "Tinggi")
        /\ (140 <= g /\ g < 200) => (category = "Prediabetes (2 jam)" /\ risk = "Sedang")
        /\ (200 <= g) => (category = "Diabetes (2 jam)" /\ risk = "Tinggi")

C1_Witness ==
    /\ input_df["Glucose"] = 126
    /\ sliders["Glucose"] = 126
    /\ glucose_metric[1] = "Diabetes (Puasa)"

\* The default input went through a stub returning label 0 and [0.8, 0.2].
DefaultSubmitted ==
    /\ Submitted
    /\ input_df = DeclaredDefaults
    /\ returned = [prediction |-> 0, probabilities |-> <<80, 20>>]

\* C2 as stated: the default input through a stub returning label 0 and
\* [0.8, 0.2] appends an entry of category "Normal (2 jam)" and risk Low
\* (Rendah), label 0, probabilities [0.8, 0.2].
C2_AsStated ==
    DefaultSubmitted =>
        /\ prediction_history # <<>>
        /\ LastEntry.data = DeclaredDefaults
        /\ LastEntry.glucose_category = "Normal (2 jam)"
        /\ glucose_metric[3] = "Rendah"
        /\ LastEntry.prediction = 0
        /\ LastEntry.probabilities = <<80, 20>>

\* C2 amended: the default input through a stub returning label 0 and
\* [0.8, 0.2] appends an entry of category "Prediabetes (Puasa)" and risk
\* Medium (Sedang), label 0, probabilities [0.8, 0.2].
C2_EndToEnd ==
    DefaultSubmitted =>
        /\ prediction_history # <<>>
        /\ LastEntry.data = DeclaredDefaults
        /\ LastEntry.glucose_category = "Prediabetes (Puasa)"
        /\ glucose_metric[3] = "Sedang"
        /\ LastEntry.prediction = 0
        /\ LastEntry.probabilities = <<80, 20>>

C2_Witness ==
    /\ DefaultSubmitted
    /\ Len(prediction_history) = 1
    /\ "model.predict_proba" \in calls

\* C3: after any sequence of predictions and clears, the history log of the
\* run of a successful prediction starts with the entry just appended: item 1
\* carries the input, label, probabilities, timestamp, glucose and category
\* of that submission.
C3_AppendThenRecent ==
    Succeeded =>
        /\ Len(shown) >= 1
        /\ shown[1].no = 1
        /\ shown[1].pred = LastEntry
        /\ shown[1].pred.data = input_df
        /\ shown[1].pred.prediction = returned.prediction
        /\ shown[1].pred.probabilities = returned.probabilities
        /\ shown[1].pred.timestamp = clock
        /\ shown[1].pred.glucose = input_df["Glucose"]
        /\ shown[1].pred.glucose_category = glucose_metric[1]

C3_Witness ==
    /\ Succeeded
    /\ Len(prediction_history) > 5
    /\ LastEntry # prediction_history[Len(prediction_history) - 1]

\* C4: the history log shows exactly min(L, 5) entries, the last min(L, 5)
\* appended, most recent first: item k is the k-th latest entry.
C4_RecentFive ==
    LET L == Len(prediction_history)
    IN  /\ Len(shown) = Min(L, 5)
        /\ \A k \in 1..Len(shown) :
              /\ shown[k].no = k
              /\ shown[k].pred = prediction_history[L + 1 - k]

C4_Witness ==
    /\ Len(prediction_history) = 6
    /\ Len(shown) = 5
    /\ prediction_history[1] # prediction_history[6]
    /\ prediction_history[2] # prediction_history[3]

\* C5: the page run of a Clear History click leaves the history empty,
\* whatever it held before, and shows no entry; the page run that follows
\* it without a submit finds the history empty, renders an empty history
\* log and offers no Clear History button.
C5_ClearEmpties ==
    [][/\ button' = "clear" => (prediction_history' = <<>> /\ shown' = <<>>)
       /\ (button = "clear" /\ button' = "none")
             => (prediction_history' = <<>> /\ shown' = <<>> /\ ~clear_offered')]_vars

C5_Witness ==
    /\ button = "clear"
    /\ prediction_history = <<>>
    /\ glucose_metric = NotRendered
    /\ current_prediction # None
    /\ current_prediction.glucose = 200

\* C6: the history has no cap and no deduplication: its length is the number
\* of successful predictions since the last clear, and every successful
\* submission appends exactly one entry at the end.
C6_NoCapNoDedup ==
    /\ [](Len(prediction_history) = predictions)
    /\ [][(button' = "predict" /\ "model.predict_proba" \in calls')
            => prediction_history' = Append(prediction_history, current_prediction')]_vars

C6_Witness ==
    /\ Succeeded
    /\ Len(prediction_history) = 6
    /\ prediction_history[5] = prediction_history[6]

\* C7: when the scaler or the model rejects the input, an error message is
\* shown, no result is defaulted, nothing is appended, and the history and
\* current_prediction are as before the attempt.
C7_RejectionSurfaced ==
    [][(button' = "predict" /\ "scaler.transform" \in calls'
                            /\ "model.predict_proba" \notin calls')
          => /\ "error: Error membuat prediksi" \in messages'
             /\ returned' = None
             /\ prediction_history' = prediction_history
             /\ current_prediction' = current_prediction]_vars

C7_Witness ==
    /\ Submitted
    /\ "scaler.transform" \in calls
    /\ "model.predict_proba" \notin calls
    /\ prediction_history # <<>>
    /\ current_prediction # None

\* A page run, as opposed to a change of the files on disk.
PageRunStep == model_file' = model_file /\ scaler_file' = scaler_file

\* C8: a submit while an artifact is missing or corrupt never calls
\* make_prediction, appends nothing, leaves history and current_prediction
\* alone and shows the load error; the history log is still rendered and Clear
\* History is still offered for a non-empty history; a submit while both
\* artifacts are loadable goes on to make_prediction.
C8_ArtifactFailure ==
    [][(button' = "predict" /\ "load_models" \in calls' /\ PageRunStep)
          => IF model_file # "ok" \/ scaler_file # "ok"
             THEN /\ "make_prediction" \notin calls'
                  /\ \E m \in messages' :
                        m \in {"error: File tidak ditemukan", "error: Error loading model"}
                  /\ prediction_history' = prediction_history
                  /\ current_prediction' = current_prediction
                  /\ Len(shown') = Min(Len(prediction_history), 5)
                  /\ \A k \in 1..Len(shown') :
                        shown'[k].pred =
                            prediction_history[Len(prediction_history) + 1 - k]
                  /\ clear_offered' = (prediction_history # <<>>)
             ELSE "make_prediction" \in calls']_vars

C8_Witness ==
    /\ load_failed
    /\ Succeeded
    /\ Len(prediction_history) = 2
    /\ model_file = "ok"
    /\ scaler_file = "ok"

\* C9: the initial record holds the declared defaults, and in every state
\* the sliders, the record of the last page run and every input snapshot in
\* the history lie within the declared ranges.
C9_InputInRange ==
    /\ sliders = DeclaredDefaults
    /\ input_df = DeclaredDefaults
    /\ [](/\ InDeclaredRange(sliders)
          /\ InDeclaredRange(input_df)
          /\ \A i \in 1..Len(prediction_history) :
                InDeclaredRange(prediction_history[i].data)
          /\ current_prediction # None => InDeclaredRange(current_prediction.data))

C9_Witness ==
    /\ Len(prediction_history) = 1
    /\ prediction_history[1].data["Insulin"] = 1000
    /\ sliders["Insulin"] = 0

\* C10: a record with a field missing or out of its declared range is
\* rejected with a validation error before prediction: scaler and model are
\* not invoked, the offending field is reported, no history entry is created.
C10_ValidationRejects ==
    (Submitted /\ ~InDeclaredRange(input_df)) =>
        /\ "scaler.transform" \notin calls
        /\ "model.predict" \notin calls
        /\ \E m \in messages : m = "error: ValidationError"
        /\ prediction_history = <<>>


\* C11: the vector handed to the scaler lists the values of the eight
\* controls in the order Pregnancies, Glucose, BloodPressure, SkinThickness,
\* Insulin, BMI, DiabetesPedigree, Age, for every combination of values.
C11_VectorOrder ==
    "scaler.transform" \in calls =>
        scaler_arg = <<sliders["Pregnancies"], sliders["Glucose"],
                       sliders["BloodPressure"], sliders["SkinThickness"],
                       sliders["Insulin"], sliders["BMI"],
                       sliders["DiabetesPedigreeFunction"], sliders["Age"]>>

C11_Witness ==
    /\ "scaler.transform" \in calls
    /\ sliders["BMI"] = 600
    /\ scaler_arg[6] = 600
    /\ scaler_arg[5] = 80

\* C12: a history entry is never mutated: every step keeps the entries the
\* history already had, unless it empties the history; the history changes
\* only by an append at the end in a successful submit or by being emptied
\* in a clear, and a page run without submit or clear leaves it unchanged.
C12_EntriesImmutable ==
    [][/\ \/ prediction_history' = prediction_history
          \/ /\ button' = "predict"
             /\ returned' # None
             /\ Len(prediction_history') = Len(prediction_history) + 1
             /\ SubSeq(prediction_history', 1, Len(prediction_history))
                   = prediction_history
             /\ prediction_history'[Len(prediction_history')] = current_prediction'
          \/ /\ button' = "clear"
             /\ prediction_history' = <<>>
       /\ button' = "none" => prediction_history' = prediction_history]_vars

C12_Witness ==
    /\ Submitted
    /\ returned = None
    /\ Len(prediction_history) >= 2
    /\ prediction_history[1].data["Glucose"] # sliders["Glucose"]
    /\ prediction_history[1] # prediction_history[2]

\* C13: after a clear no session state outside the history holds the data
\* of a previously recorded prediction; in particular current_prediction
\* holds none.
C13_ClearDiscardsAll ==
    button = "clear" => current_prediction = None

\* C14: for every glucose value of the slider range the sidebar status is
\* the three-band classification by 140 and 200 alone, whatever the five-band
\* analysis says, and the high-glucose warning is shown exactly when the
\* status is Diabetes.
C14_SidebarThreeBands ==
    LET g == input_df["Glucose"]
    IN  /\ g \in 50..400
        /\ (g < 140) => sidebar.status = "Normal"
        /\ (140 <= g /\ g < 200) => sidebar.status = "Prediabetes"
        /\ (200 <= g) => sidebar.status = "Diabetes"
        /\ sidebar.warning <=> (sidebar.status = "Diabetes")

C14_Witness ==
    /\ input_df["Glucose"] = 130
    /\ sliders["Glucose"] = 130
    /\ sidebar.status = "Normal"
    /\ ~sidebar.warning
    /\ glucose_metric[1] = "Diabetes (Puasa)"

\* C15: when the feature-importance chart cannot be drawn, the failure is
\* swallowed: the run shows no box beyond the glucose interpretation and the
\* boxes of the result, the entry and current_prediction of that submission
\* are recorded, and the history log that follows is rendered with that
\* entry first.
C15_ChartFailureSwallowed ==
    [][(button' = "predict" /\ "model.predict_proba" \in calls'
                            /\ chart' \notin {"absent", "shown"})
          => /\ chart' = "omitted"
             /\ messages' \subseteq
                    {"info: Interpretasi Glukosa Anda",
                     "warning: Disarankan untuk konsultasi dengan dokter",
                     "error: Nilai Diabetes", "warning: Nilai Prediabetes",
                     "success: Nilai Normal",
                     "error: PERHATIAN NILAI GLUKOSA TINGGI"}
             /\ "info: Interpretasi Glukosa Anda" \in messages'
             /\ current_prediction' # None
             /\ current_prediction'.data = input_df'
             /\ current_prediction'.timestamp = clock'
             /\ prediction_history' = Append(prediction_history, current_prediction')
             /\ Len(shown') >= 1
             /\ shown'[1].pred = current_prediction']_vars

C15_Witness ==
    /\ Submitted
    /\ chart = "omitted"
    /\ Len(prediction_history) >= 2
    /\ shown[1].pred = current_prediction

\* C16: in every state every history entry's glucose_category is
\* analyze_glucose_level of the Glucose field of the entry's own input
\* snapshot, and its glucose value is that Glucose field.
C16_CategoryOfOwnGlucose ==
    \A i \in 1..Len(prediction_history) :
        /\ prediction_history[i].glucose = prediction_history[i].data["Glucose"]
        /\ prediction_history[i].glucose_category =
               analyze_glucose_level(prediction_history[i].data["Glucose"])[1]

C16_Witness ==
    /\ Len(prediction_history) >= 2
    /\ prediction_history[1].glucose = 120
    /\ prediction_history[1].glucose_category = "Prediabetes (Puasa)"
    /\ prediction_history[2].glucose = 200
    /\ prediction_history[2].glucose_category = "Diabetes (2 jam)"
    /\ button = "none"

\* C17: in every page run whose history log shows at least one entry, the
\* Clear History button is offered in that same run.
C17_ClearOfferedWithLog ==
    shown # <<>> => clear_offered

====
